---- MODULE Spec2Model ----
(***************************************************************************)
(* A model of kube-dump (src/kube-dump.py): resource discovery, the dump   *)
(* of namespaced and cluster-wide resources into a tree of manifest files, *)
(* archive rotation, and the exit status of a run.                         *)
(*                                                                         *)
(* A Python dict is an insertion-ordered mapping; it is modelled as a      *)
(* sequence of <<key, value>> pairs with distinct keys.  A resource item   *)
(* is a record [top, meta]: `top` is the item's top-level mapping, in      *)
(* which the value of the key "metadata" is the placeholder MetaRef, and   *)
(* `meta` is the mapping stored under that key (<<>> when there is none).  *)
(* An Optional value is <<>> (None) or <<v>>.                              *)
(***************************************************************************)
EXTENDS Integers, Sequences, FiniteSets, TLC

VARIABLES
    \* the per-item pipeline observed on one item
    m_stage,    \* its position: raw, injected, cleaned, saved ("idle" when unused)
    m_raw,      \* the item as the list call returned it
    m_inj,      \* the item right after apiVersion/kind injection
    m_obj,      \* the item object as it is now (mutated in place by the code)
    m_desc,     \* the descriptor of the resource type the item belongs to
    m_ns,       \* the namespace argument handed to save_object (Optional)
    \* the destination directory
    fs,         \* path -> file content (a sequence of YAML documents)
    dirs,       \* the directories that exist
    archives,   \* archive files of the destination root: <<stamp, type>> -> [mtime, tree]
    fs0,        \* the files when the current run (or operation) started
    dirs0,      \* the directories when the current run (or operation) started
    wlog,       \* history: the manifest writes of the current run, in order, as [unit, path]
    \* the inputs of a run
    detailed,   \* the --detailed flag
    opts,       \* the other options of the command line
    cluster,    \* what the control plane answers to the discovery calls
    resp,       \* what the control plane answers to the list calls: path -> response
    fault,      \* the step of the run that the environment makes fail ("none": no step)
    now,        \* the clock
    \* the position and the locals of cli / _run_backup
    pc,
    run,           \* 1 for the first run, 2 for the run that follows it
    git_repo,      \* the repository handle of the pre-dump sync (Optional)
    ns_list,
    ns_resources,
    cls_resources,
    idx,           \* index of the next dump unit of the pass under way
    listed,        \* history: the list calls of the current run, in order
    new_archive,   \* history: the archive this run produced (Optional)
    deleted,       \* history: the archives this run's rotation deleted, as [name, mtime]
    git_log,       \* history: the commits and pushes of the current run, in order
    raised,        \* history: the failure that ended _run_backup (Optional [kind, at])
    notes,         \* history: the notifications attempted, as [success, delivery]
    exit_code      \* the exit status of the process (Optional)

mvars == <<m_stage, m_raw, m_inj, m_obj, m_desc, m_ns>>
diskvars == <<fs, dirs, archives, fs0, dirs0, wlog>>
inputs == <<detailed, opts, cluster, resp, fault>>
runvars == <<now, pc, run, git_repo, ns_list, ns_resources, cls_resources, idx, listed,
             new_archive, deleted, git_log, raised, notes, exit_code>>
vars == <<mvars, diskvars, inputs, runvars>>

----------------------------------------------------------------------------
(* Bounds of the model *)

\* longest top-level key sequence of a raw item
MaxTopKeys == 3
\* largest number of keys in a raw item's metadata
MaxMetaKeys == 2
\* most ticks between two readings of the clock in the archive step
MaxDelay == 1
\* most list calls that fail in one cluster
MaxFailures == 1
\* most API groups the control plane advertises
MaxGroups == 2
\* most archives in the destination before a run
MaxArchives == 2
\* longest retention window, in days
MaxRotateDays == 2
\* the tick at which a run starts
Now0 == 3

----------------------------------------------------------------------------
(* Python dict and Optional operations *)

None == <<>>
Some(v) == <<v>>
\* Python truthiness of an Optional[str]
Truthy(o) == o # None /\ o[1] # ""

Range(s) == {s[i] : i \in 1..Len(s)}
Keys(d) == [i \in 1..Len(d) |-> d[i][1]]
KeySet(d) == {d[i][1] : i \in 1..Len(d)}
Has(d, k) == \E i \in 1..Len(d) : d[i][1] = k
Get(d, k) == d[CHOOSE i \in 1..Len(d) : d[i][1] = k][2]
\* d.get(k) -> Optional
GetOpt(d, k) == IF Has(d, k) THEN Some(Get(d, k)) ELSE None
\* d[k] = v : in place when the key exists, appended otherwise
Put(d, k, v) ==
    IF Has(d, k)
    THEN [i \in 1..Len(d) |-> IF d[i][1] = k THEN <<k, v>> ELSE d[i]]
    ELSE Append(d, <<k, v>>)
\* d.pop(k, None)
Pop(d, k) == SelectSeq(d, LAMBDA e : e[1] # k)

MetaRef == "@metadata"

----------------------------------------------------------------------------
(* Resource type descriptors: <<group, version, res_name, namespaced, kind>> *)

ApiVersionOf(group, version) ==
    IF group = "" THEN version ELSE group \o "/" \o version

\* item["apiVersion"] = api_version ; item["kind"] = kind
InjectTypeMeta(obj, api_version, kind) ==
    [obj EXCEPT !.top = Put(Put(@, "apiVersion", api_version), "kind", kind)]

----------------------------------------------------------------------------
(* clean_resource *)

StripKeys == <<"uid", "resourceVersion", "generation", "managedFields", "creationTimestamp">>

\* for k in (...): meta.pop(k, None)
PopEach(meta, keys) == SelectSeq(meta, LAMBDA e : e[1] \notin Range(keys))

\* a plausible slip: one of the keys is missing from the list of stripped keys
clean_resource_short(obj, det) ==
    IF det THEN obj
    ELSE LET top1 == Pop(obj.top, "status")
             meta == IF Has(top1, "metadata") THEN obj.meta ELSE <<>>
         IN  [top |-> Put(top1, "metadata", MetaRef),
              meta |-> PopEach(meta, SubSeq(StripKeys, 1, 2) \o SubSeq(StripKeys, 4, 5))]

clean_resource(obj, det) ==
    IF det THEN obj
    ELSE LET top1 == Pop(obj.top, "status")
             meta == IF Has(top1, "metadata") THEN obj.meta ELSE <<>>
         IN  [top |-> Put(top1, "metadata", MetaRef),
              meta |-> PopEach(meta, StripKeys)]

----------------------------------------------------------------------------
(* save_object *)

PriorityKeys == <<"apiVersion", "kind", "metadata", "spec", "data", "stringData", "type">>

\* for key in [...]: if key in obj: ordered[key] = obj[key]
TakePriority(top, keys) ==
    LET present == SelectSeq(keys, LAMBDA k : Has(top, k))
    IN  [i \in 1..Len(present) |-> <<present[i], Get(top, present[i])>>]

\* for key, value in obj.items(): if key not in ordered: ordered[key] = value
TakeRest(ordered, top) ==
    ordered \o SelectSeq(top, LAMBDA e : ~Has(ordered, e[1]))

\* a plausible slip: the loop over the remaining keys is missing
OrderKeys_first_only(top) == TakePriority(top, PriorityKeys)

OrderKeys(top) == TakeRest(TakePriority(top, PriorityKeys), top)

\* obj.get("metadata", {}).get("name")
ObjName(obj) ==
    IF Has(obj.top, "metadata") THEN GetOpt(obj.meta, "name") ELSE None

DestPath(name, resource_name, namespace) ==
    IF Truthy(namespace)
    THEN <<"namespaces", namespace[1], resource_name, name \o ".yaml">>
    ELSE <<"cluster", resource_name, name \o ".yaml">>

\* path.parent.mkdir(parents=True, exist_ok=True)
ParentDirs(path) == {SubSeq(path, 1, i) : i \in 1..(Len(path) - 1)}

\* the YAML document yaml.dump(ordered, sort_keys=False) emits
Document(obj) == [top |-> OrderKeys(obj.top), meta |-> obj.meta]

WriteFile(files, path, content) ==
    [p \in (DOMAIN files) \cup {path} |-> IF p = path THEN content ELSE files[p]]

\* a plausible slip: the file is opened in append mode
save_object_append(disk, obj, resource_name, namespace) ==
    LET name == ObjName(obj)
        path == DestPath(name[1], resource_name, namespace)
    IN  IF ~Truthy(name) THEN [fs |-> disk.fs, dirs |-> disk.dirs, wrote |-> <<>>]
        ELSE [fs |-> WriteFile(disk.fs, path,
                               (IF path \in DOMAIN disk.fs THEN disk.fs[path] ELSE <<>>)
                                   \o <<Document(obj)>>),
              dirs |-> disk.dirs \cup ParentDirs(path),
              wrote |-> <<path>>]

\* a plausible slip: the cluster-scoped branch is taken for every item
save_object_flat(disk, obj, resource_name, namespace) ==
    LET name == ObjName(obj)
        path == DestPath(name[1], resource_name, None)
    IN  IF ~Truthy(name) THEN [fs |-> disk.fs, dirs |-> disk.dirs, wrote |-> <<>>]
        ELSE [fs |-> WriteFile(disk.fs, path, <<Document(obj)>>),
              dirs |-> disk.dirs \cup ParentDirs(path),
              wrote |-> <<path>>]

\* disk is [fs, dirs]; the result adds `wrote`, the paths written (none or one)
save_object(disk, obj, resource_name, namespace) ==
    LET name == ObjName(obj)
        path == DestPath(name[1], resource_name, namespace)
    IN  IF ~Truthy(name) THEN [fs |-> disk.fs, dirs |-> disk.dirs, wrote |-> <<>>]
        ELSE [fs |-> WriteFile(disk.fs, path, <<Document(obj)>>),
              dirs |-> disk.dirs \cup ParentDirs(path),
              wrote |-> <<path>>]

----------------------------------------------------------------------------
(* The destination tree before a run *)

EmptyTree == [fs |-> <<>>, dirs |-> {}]

StaleDoc == [top |-> <<<<"kind", "Stale">>>>, meta |-> <<>>]

\* a tree left by an earlier run: one file the dump will write again, one it will not
StaleTree ==
    [fs |-> (<<"namespaces", "ns1", "pods", "foo.yaml">> :> <<StaleDoc>>)
            @@ (<<"cluster", "nodes", "gone.yaml">> :> <<StaleDoc>>),
     dirs |-> ParentDirs(<<"namespaces", "ns1", "pods", "foo.yaml">>)
              \cup ParentDirs(<<"cluster", "nodes", "gone.yaml">>)]

InitialTrees == {EmptyTree, StaleTree}

----------------------------------------------------------------------------
(* Raw items, as a list call may return them *)

TopKeyUniverse == {"kind", "metadata", "spec", "status", "rules"}
MetaKeyUniverse == <<"name", "labels", "uid", "resourceVersion", "generation",
                     "managedFields", "creationTimestamp">>
NameValues == {"", "foo"}

RECURSIVE DistinctSeqs(_, _)
DistinctSeqs(S, n) ==
    IF n = 0 THEN {<<>>}
    ELSE LET shorter == DistinctSeqs(S, n - 1)
         IN  shorter \cup UNION {{Append(s, k) : k \in S \ Range(s)} : s \in shorter}

\* the metadata mappings of at most n keys, in the order of MetaKeyUniverse
MetaMaps(n) ==
    LET sel == {I \in SUBSET (1..Len(MetaKeyUniverse)) : Cardinality(I) <= n}
        pick(I, nm) == SelectSeq([i \in 1..Len(MetaKeyUniverse) |->
                                    <<MetaKeyUniverse[i],
                                      IF MetaKeyUniverse[i] = "name" THEN nm ELSE "orig",
                                      i \in I>>],
                                 LAMBDA e : e[3])
        strip(s) == [i \in 1..Len(s) |-> <<s[i][1], s[i][2]>>]
    IN  {strip(pick(I, nm)) : I \in sel, nm \in NameValues}

TopMap(ks) == [i \in 1..Len(ks) |-> <<ks[i], IF ks[i] = "metadata" THEN MetaRef ELSE "orig">>]

\* the items of at most n top-level keys and at most m metadata keys
RawItems(n, m) ==
    UNION {IF "metadata" \in Range(ks)
           THEN {[top |-> TopMap(ks), meta |-> mm] : mm \in MetaMaps(m)}
           ELSE {[top |-> TopMap(ks), meta |-> <<>>]}
           : ks \in DistinctSeqs(TopKeyUniverse, n)}

ManifestDescs ==
    {<<"", "v1", "pods", TRUE, "Pod">>,
     <<"rbac.authorization.k8s.io", "v1", "clusterroles", FALSE, "ClusterRole">>}

----------------------------------------------------------------------------
(* discover_resources *)

(* The discovery surface is a record [core, apis, gv]: core is the answer to   *)
(* /api/v1 and apis the answer to /apis, each None when the call raises; gv    *)
(* maps <<group, version>> to the answer to /apis/<group>/<version>.  A        *)
(* resource entry is [name, namespaced, kind, verbs]; a group is               *)
(* [name, versions, preferred].                                                *)

SkippedGroups == {"metrics.k8s.io", "node.k8s.io"}

NoResources == [ns_list |-> <<>>, cluster_list |-> <<>>]

\* call_k8s_api("/apis/<group>/<version>"): None when the call raises
GroupVersionCall(c, group_name, version) ==
    IF <<group_name, version>> \in DOMAIN c.gv THEN c.gv[<<group_name, version>>] ELSE None

\* for res in ...get("resources", []): if "list" in verbs: append to ns_list or cluster_list
RECURSIVE AddEntries(_, _, _, _)
AddEntries(acc, group_name, version, entries) ==
    IF entries = <<>> THEN acc
    ELSE LET res == Head(entries)
             item == <<group_name, version, res.name, res.namespaced, res.kind>>
             acc1 == IF "list" \notin res.verbs THEN acc
                     ELSE IF item[4]
                          THEN [acc EXCEPT !.ns_list = Append(@, item)]
                          ELSE [acc EXCEPT !.cluster_list = Append(@, item)]
         IN  AddEntries(acc1, group_name, version, Tail(entries))

\* the first try block: the core group
CoreStep(acc, c) ==
    IF c.core = None THEN acc
    ELSE AddEntries(acc, "", "v1", c.core[1])

\* a plausible slip: the first listed version is taken even when one is preferred
SelectVersion_first(group) == group.versions[1]

\* pref_ver if pref_ver else versions[0]["version"]
SelectVersion(group) ==
    IF Truthy(group.preferred) THEN group.preferred[1] ELSE group.versions[1]

\* a plausible slip: the call for one group is not in a try block of its own
GroupStep_no_inner_try(acc, c, group) ==
    IF group.versions = <<>> THEN [acc |-> acc, raised |-> FALSE]
    ELSE IF group.name \in SkippedGroups THEN [acc |-> acc, raised |-> FALSE]
    ELSE LET version == SelectVersion(group)
             res_list == GroupVersionCall(c, group.name, version)
         IN  IF res_list = None THEN [acc |-> acc, raised |-> TRUE]
             ELSE [acc |-> AddEntries(acc, group.name, version, res_list[1]),
                   raised |-> FALSE]

\* the body of the loop over the groups; raised: an exception leaves the body
GroupStep(acc, c, group) ==
    IF group.versions = <<>> THEN [acc |-> acc, raised |-> FALSE]
    ELSE IF group.name \in SkippedGroups THEN [acc |-> acc, raised |-> FALSE]
    ELSE LET version == SelectVersion(group)
             res_list == GroupVersionCall(c, group.name, version)
         IN  IF res_list = None THEN [acc |-> acc, raised |-> FALSE]
             ELSE [acc |-> AddEntries(acc, group.name, version, res_list[1]),
                   raised |-> FALSE]

\* the loop over the groups, inside the second try block: an exception that
\* leaves the body ends the loop
RECURSIVE GroupsLoop(_, _, _)
GroupsLoop(acc, c, groups) ==
    IF groups = <<>> THEN acc
    ELSE LET step == GroupStep(acc, c, Head(groups))
         IN  IF step.raised THEN step.acc
             ELSE GroupsLoop(step.acc, c, Tail(groups))

discover_resources(c) ==
    LET after_core == CoreStep(NoResources, c)
    IN  IF c.apis = None THEN after_core
        ELSE GroupsLoop(after_core, c, c.apis[1])

----------------------------------------------------------------------------
(* One dump unit: the body of the loops of the namespaced and cluster passes *)

(* A response to a list call is [status, items]: status "ok" with the items,   *)
(* "403", "404" or "500" for an ApiException of that status, "exc" for any     *)
(* other exception.                                                            *)

NotFound == [status |-> "404", items |-> <<>>]

ListPath(namespace, desc) ==
    IF Truthy(namespace)
    THEN IF desc[1] = ""
         THEN "/api/" \o desc[2] \o "/namespaces/" \o namespace[1] \o "/" \o desc[3]
         ELSE "/apis/" \o desc[1] \o "/" \o desc[2] \o "/namespaces/" \o namespace[1]
                  \o "/" \o desc[3]
    ELSE IF desc[1] = ""
         THEN "/api/" \o desc[2] \o "/" \o desc[3]
         ELSE "/apis/" \o desc[1] \o "/" \o desc[2] \o "/" \o desc[3]

\* call_k8s_api(path) for a list path
ListCall(answers, path) == IF path \in DOMAIN answers THEN answers[path] ELSE NotFound

UnitId(namespace, desc) == <<namespace, desc[1], desc[2], desc[3]>>

\* for item in data.get("items", []): inject, clean_resource, save_object
RECURSIVE DumpItems(_, _, _, _, _)
DumpItems(disk, items, namespace, desc, det) ==
    IF items = <<>> THEN disk
    ELSE LET item == InjectTypeMeta(Head(items), ApiVersionOf(desc[1], desc[2]), desc[5])
             cleaned == clean_resource(item, det)
             r == save_object([fs |-> disk.fs, dirs |-> disk.dirs], cleaned, desc[3], namespace)
         IN  DumpItems([fs |-> r.fs, dirs |-> r.dirs, wrote |-> disk.wrote \o r.wrote],
                       Tail(items), namespace, desc, det)

\* a plausible slip: the handler of the other exceptions is missing
OnListError_api_only(status) ==
    IF status \in {"403", "404", "500"} THEN "next" ELSE "raise"

\* the except clauses around a unit: 403 is logged as a warning, 404 continues,
\* any other ApiException and any other exception are logged at debug level;
\* each of them goes on with the next unit
OnListError(status) ==
    CASE status = "403" -> "next"
      [] status = "404" -> "next"
      [] status = "500" -> "next"
      [] OTHER -> "next"

\* disk is [fs, dirs]; the result is [fs, dirs, wrote, effect]
DumpUnit(disk, answers, namespace, desc, det) ==
    LET data == ListCall(answers, ListPath(namespace, desc))
    IN  IF data.status = "ok"
        THEN LET r == DumpItems([fs |-> disk.fs, dirs |-> disk.dirs, wrote |-> <<>>],
                                data.items, namespace, desc, det)
             IN  [fs |-> r.fs, dirs |-> r.dirs, wrote |-> r.wrote, effect |-> "next"]
        ELSE [fs |-> disk.fs, dirs |-> disk.dirs, wrote |-> <<>>,
              effect |-> OnListError(data.status)]

----------------------------------------------------------------------------
(* cli and _run_backup, step by step *)

(* opts is [mode, force_remove, git, git_push, archive, archive_type,          *)
(* rotate_days, namespaces, slack]: git stands for "--git-commit and a remote  *)
(* URL are given", namespaces is the parsed --namespaces list (<<>>: list the  *)
(* namespaces of the cluster), slack for "a webhook URL is given".             *)

Failure(kind, at) == Some([kind |-> kind, at |-> at])

\* lines 429-442: git_init_and_pull (which removes the directories of the
\* destination and keeps the archives) or, without git, the force-remove; mkdir
PreSync ==
    /\ pc = "start"
    /\ IF opts.git
       THEN IF fault = "presync"
            THEN /\ pc' = "exception" /\ raised' = Failure("Exception", "presync")
                 /\ UNCHANGED <<fs, dirs, archives, git_repo>>
            ELSE /\ fs' = <<>> /\ dirs' = {} /\ git_repo' = Some("repo")
                 /\ pc' = "load_config"
                 /\ UNCHANGED <<archives, raised>>
       ELSE /\ IF opts.force_remove
               THEN fs' = <<>> /\ dirs' = {} /\ archives' = <<>>
               ELSE UNCHANGED <<fs, dirs, archives>>
            /\ pc' = "load_config"
            /\ UNCHANGED <<git_repo, raised>>
    /\ UNCHANGED <<mvars, fs0, dirs0, wlog, inputs, now, run, ns_list, ns_resources,
                   cls_resources, idx, listed, new_archive, deleted, git_log, notes, exit_code>>

\* lines 444-452: the in-cluster configuration, else the kubeconfig, else sys.exit(1)
LoadConfig ==
    /\ pc = "load_config"
    /\ IF fault = "kubeconfig"
       THEN pc' = "system_exit" /\ raised' = Failure("SystemExit", "load_config")
       ELSE pc' = "resolve_ns" /\ UNCHANGED raised
    /\ UNCHANGED <<mvars, diskvars, inputs, now, run, git_repo, ns_list, ns_resources,
                   cls_resources, idx, listed, new_archive, deleted, git_log, notes, exit_code>>

\* lines 454-463: the --namespaces list, else list_namespace(); an ApiException
\* is sys.exit(1), any other exception leaves _run_backup
ResolveNamespaces ==
    /\ pc = "resolve_ns"
    /\ IF opts.namespaces # <<>>
       THEN ns_list' = opts.namespaces /\ pc' = "discover" /\ UNCHANGED raised
       ELSE IF fault = "list_namespace_api"
       THEN /\ pc' = "system_exit" /\ raised' = Failure("SystemExit", "resolve_ns")
            /\ UNCHANGED ns_list
       ELSE IF fault = "list_namespace_other"
       THEN /\ pc' = "exception" /\ raised' = Failure("Exception", "resolve_ns")
            /\ UNCHANGED ns_list
       ELSE ns_list' = cluster.namespaces /\ pc' = "discover" /\ UNCHANGED raised
    /\ UNCHANGED <<mvars, diskvars, inputs, now, run, git_repo, ns_resources,
                   cls_resources, idx, listed, new_archive, deleted, git_log, notes, exit_code>>

\* lines 465-468
Discover ==
    /\ pc = "discover"
    /\ LET found == discover_resources(cluster)
       IN  /\ ns_resources' = found.ns_list
           /\ cls_resources' = found.cluster_list
    /\ pc' = "dump_ns"
    /\ idx' = 1
    /\ UNCHANGED <<mvars, diskvars, inputs, now, run, git_repo, ns_list, listed,
                   new_archive, deleted, git_log, raised, notes, exit_code>>

\* the units of the namespaced pass, in the order of the two nested loops
NsUnitCount == Len(ns_list) * Len(ns_resources)
NsUnitNamespace(k) == Some(ns_list[((k - 1) \div Len(ns_resources)) + 1])
NsUnitDesc(k) == ns_resources[((k - 1) % Len(ns_resources)) + 1]

\* lines 473-498: one iteration of the inner loop of the namespaced pass
DumpNamespacedUnit ==
    /\ pc = "dump_ns"
    /\ opts.mode \in {"all", "ns"}
    /\ idx <= NsUnitCount
    /\ LET ns == NsUnitNamespace(idx)
           desc == NsUnitDesc(idx)
           r == DumpUnit([fs |-> fs, dirs |-> dirs], resp, ns, desc, detailed)
       IN  /\ fs' = r.fs
           /\ dirs' = r.dirs
           /\ wlog' = wlog \o [i \in 1..Len(r.wrote) |->
                                 [unit |-> UnitId(ns, desc), path |-> r.wrote[i]]]
           /\ listed' = Append(listed, UnitId(ns, desc))
           /\ IF r.effect = "raise"
              THEN pc' = "exception" /\ raised' = Failure("Exception", "dump_ns")
              ELSE UNCHANGED <<pc, raised>>
    /\ idx' = idx + 1
    /\ UNCHANGED <<mvars, archives, fs0, dirs0, inputs, now, run, git_repo, ns_list,
                   ns_resources, cls_resources, new_archive, deleted, git_log, notes, exit_code>>

\* line 471 and the end of the loops of the namespaced pass
EndNamespacedPass ==
    /\ pc = "dump_ns"
    /\ opts.mode \notin {"all", "ns"} \/ idx > NsUnitCount
    /\ pc' = "dump_cls"
    /\ idx' = 1
    /\ UNCHANGED <<mvars, diskvars, inputs, now, run, git_repo, ns_list, ns_resources,
                   cls_resources, listed, new_archive, deleted, git_log, raised, notes, exit_code>>

\* lines 503-527: one iteration of the loop of the cluster pass
DumpClusterUnit ==
    /\ pc = "dump_cls"
    /\ opts.mode \in {"all", "cls"}
    /\ idx <= Len(cls_resources)
    /\ LET desc == cls_resources[idx]
           r == DumpUnit([fs |-> fs, dirs |-> dirs], resp, None, desc, detailed)
       IN  /\ fs' = r.fs
           /\ dirs' = r.dirs
           /\ wlog' = wlog \o [i \in 1..Len(r.wrote) |->
                                 [unit |-> UnitId(None, desc), path |-> r.wrote[i]]]
           /\ listed' = Append(listed, UnitId(None, desc))
           /\ IF r.effect = "raise"
              THEN pc' = "exception" /\ raised' = Failure("Exception", "dump_cls")
              ELSE UNCHANGED <<pc, raised>>
    /\ idx' = idx + 1
    /\ UNCHANGED <<mvars, archives, fs0, dirs0, inputs, now, run, git_repo, ns_list,
                   ns_resources, cls_resources, new_archive, deleted, git_log, notes, exit_code>>

\* a plausible slip: the loop of the cluster pass is left after any iteration
EndClusterPass_early ==
    /\ pc = "dump_cls"
    /\ pc' = "archive"
    /\ UNCHANGED <<mvars, diskvars, inputs, now, run, git_repo, ns_list, ns_resources,
                   cls_resources, idx, listed, new_archive, deleted, git_log, raised,
                   notes, exit_code>>

\* line 501 and the end of the loop of the cluster pass
EndClusterPass ==
    /\ pc = "dump_cls"
    /\ opts.mode \notin {"all", "cls"} \/ idx > Len(cls_resources)
    /\ pc' = "archive"
    /\ UNCHANGED <<mvars, diskvars, inputs, now, run, git_repo, ns_list, ns_resources,
                   cls_resources, idx, listed, new_archive, deleted, git_log, raised,
                   notes, exit_code>>

\* a plausible slip: the archive of this run is not excluded from the rotation
ShouldRotate_any(arch, archive_path, mtime, cutoff) == mtime < cutoff

\* line 557: arch != archive_path and arch.stat().st_mtime < cutoff.timestamp()
ShouldRotate(arch, archive_path, mtime, cutoff) ==
    arch # archive_path /\ mtime < cutoff

Restrict(f, S) == [x \in S |-> f[x]]

\* lines 530-559: the archive of the destination (without the archives in it) is
\* written d1 ticks after the clock was read for its name, the clock is read
\* again d2 ticks later for the cutoff, and the archives of the same type that
\* are older than the cutoff are deleted.  The clock ticks in days.
ArchiveStep ==
    /\ pc = "archive"
    /\ IF ~opts.archive
       THEN /\ pc' = "commit"
            /\ UNCHANGED <<archives, now, new_archive, deleted, raised>>
       ELSE IF fault = "archive"
       THEN /\ pc' = "exception" /\ raised' = Failure("Exception", "archive")
            /\ UNCHANGED <<archives, now, new_archive, deleted>>
       ELSE \E d1 \in 0..MaxDelay, d2 \in 0..MaxDelay :
            LET archive_path == <<now, opts.archive_type>>
                written == [a \in (DOMAIN archives) \cup {archive_path} |->
                              IF a = archive_path
                              THEN [mtime |-> now + d1, tree |-> fs]
                              ELSE archives[a]]
                cutoff == (now + d1 + d2) - opts.rotate_days
                doomed == {a \in DOMAIN written :
                              /\ a[2] = opts.archive_type
                              /\ ShouldRotate(a, archive_path, written[a].mtime, cutoff)}
            IN  /\ archives' = Restrict(written, (DOMAIN written) \ doomed)
                /\ deleted' = {[name |-> a, mtime |-> written[a].mtime] : a \in doomed}
                /\ new_archive' = Some(archive_path)
                /\ now' = now + d1 + d2
                /\ pc' = "commit"
                /\ UNCHANGED raised
    /\ UNCHANGED <<mvars, fs, dirs, fs0, dirs0, wlog, inputs, run, git_repo, ns_list,
                   ns_resources, cls_resources, idx, listed, git_log, notes, exit_code>>

\* lines 562-571 and git_commit_and_push: when the work tree is dirty, commit,
\* and push when asked to; a failed push raises GitError
CommitStep ==
    /\ pc = "commit"
    /\ IF ~(opts.git /\ Truthy(git_repo))
       THEN pc' = "return" /\ UNCHANGED <<git_log, raised>>
       ELSE \E dirty \in BOOLEAN :
            IF ~dirty
            THEN pc' = "return" /\ UNCHANGED <<git_log, raised>>
            ELSE IF fault = "commit"
            THEN /\ pc' = "exception" /\ raised' = Failure("Exception", "commit")
                 /\ UNCHANGED git_log
            ELSE IF ~opts.git_push
            THEN /\ git_log' = Append(git_log, "commit")
                 /\ pc' = "return" /\ UNCHANGED raised
            ELSE IF fault = "push"
            THEN /\ git_log' = Append(git_log, "commit")
                 /\ pc' = "exception" /\ raised' = Failure("GitError", "push")
            ELSE /\ git_log' = git_log \o <<"commit", "push">>
                 /\ pc' = "return" /\ UNCHANGED raised
    /\ UNCHANGED <<mvars, diskvars, inputs, now, run, git_repo, ns_list, ns_resources,
                   cls_resources, idx, listed, new_archive, deleted, notes, exit_code>>

\* what may become of a notification: no webhook URL is set, or the POST is
\* answered 200, answered otherwise, or raises
Deliveries(slack) == IF slack THEN {"sent", "http_error", "exception"} ELSE {"no_url"}

\* a plausible slip: the POST is not in a try block
send_slack_notification_unguarded(delivery) ==
    IF delivery = "exception" THEN "raises" ELSE "returns"

\* send_slack_notification: returns at once without a URL; a POST that raises or
\* is not answered 200 is logged
send_slack_notification(delivery) ==
    CASE delivery = "no_url" -> "returns"
      [] delivery = "sent" -> "returns"
      [] delivery = "http_error" -> "returns"
      [] delivery = "exception" -> "returns"

\* lines 343-372 after _run_backup returned: the success notification, then the
\* normal end of the command (exit status 0)
Finish ==
    /\ pc = "return"
    /\ \E delivery \in Deliveries(opts.slack) :
          /\ notes' = Append(notes, [success |-> TRUE, delivery |-> delivery])
          /\ IF send_slack_notification(delivery) = "raises"
             THEN pc' = "exception" /\ UNCHANGED exit_code
             ELSE pc' = "exited" /\ exit_code' = Some(0)
    /\ UNCHANGED <<mvars, diskvars, inputs, now, run, git_repo, ns_list, ns_resources,
                   cls_resources, idx, listed, new_archive, deleted, git_log, raised>>

\* lines 374-386: SystemExit with a code other than 0 sends the failure
\* notification and is raised again (every sys.exit of _run_backup has code 1)
OnSystemExit ==
    /\ pc = "system_exit"
    /\ \E delivery \in Deliveries(opts.slack) :
          notes' = Append(notes, [success |-> FALSE, delivery |-> delivery])
    /\ pc' = "exited"
    /\ exit_code' = Some(1)
    /\ UNCHANGED <<mvars, diskvars, inputs, now, run, git_repo, ns_list, ns_resources,
                   cls_resources, idx, listed, new_archive, deleted, git_log, raised>>

\* lines 388-402: any other exception sends the failure notification, sys.exit(1)
OnException ==
    /\ pc = "exception"
    /\ \E delivery \in Deliveries(opts.slack) :
          notes' = Append(notes, [success |-> FALSE, delivery |-> delivery])
    /\ pc' = "exited"
    /\ exit_code' = Some(1)
    /\ UNCHANGED <<mvars, diskvars, inputs, now, run, git_repo, ns_list, ns_resources,
                   cls_resources, idx, listed, new_archive, deleted, git_log, raised>>

\* the command is run again, with the same options against the same cluster
Rerun ==
    /\ pc = "exited"
    /\ run = 1
    /\ run' = 2
    /\ pc' = "start"
    /\ fs0' = fs /\ dirs0' = dirs
    /\ wlog' = <<>> /\ listed' = <<>> /\ git_log' = <<>> /\ notes' = <<>>
    /\ git_repo' = None /\ new_archive' = None /\ deleted' = {}
    /\ raised' = None /\ exit_code' = None
    /\ ns_list' = <<>> /\ ns_resources' = <<>> /\ cls_resources' = <<>> /\ idx' = 1
    /\ UNCHANGED <<mvars, fs, dirs, archives, inputs, now>>

NextRun ==
    \/ PreSync \/ LoadConfig \/ ResolveNamespaces \/ Discover
    \/ DumpNamespacedUnit \/ EndNamespacedPass \/ DumpClusterUnit \/ EndClusterPass
    \/ ArchiveStep \/ CommitStep \/ Finish \/ OnSystemExit \/ OnException

----------------------------------------------------------------------------
(* The clusters and the options the runs are checked with *)

Entry(name, namespaced, kind, verbs) ==
    [name |-> name, namespaced |-> namespaced, kind |-> kind, verbs |-> verbs]
Group(name, versions, preferred) ==
    [name |-> name, versions |-> versions, preferred |-> preferred]

CoreEntries ==
    <<Entry("pods", TRUE, "Pod", {"get", "list", "watch"}),
      Entry("pods/log", TRUE, "Pod", {"get"}),
      Entry("events", TRUE, "Event", {"get", "list"}),
      Entry("nodes", FALSE, "Node", {"get", "list"})>>

\* the answers of the control plane to /apis/<group>/<version>
GroupEntries(group_name, version) ==
    CASE group_name = "apps" /\ version = "v1" ->
            <<Entry("deployments", TRUE, "Deployment", {"get", "list"}),
              Entry("deployments/scale", TRUE, "Scale", {"get", "update"})>>
      [] group_name = "apps" /\ version = "v1beta1" ->
            <<Entry("statefulsets", TRUE, "StatefulSet", {"list"})>>
      [] group_name = "events.k8s.io" ->
            <<Entry("events", TRUE, "Event", {"get", "list"})>>
      [] group_name = "rbac.authorization.k8s.io" ->
            <<Entry("clusterroles", FALSE, "ClusterRole", {"list"}),
              Entry("roles", TRUE, "Role", {"list"})>>
      [] group_name = "metrics.k8s.io" ->
            <<Entry("pods", TRUE, "PodMetrics", {"get", "list"}),
              Entry("nodes", FALSE, "NodeMetrics", {"get", "list"})>>
      [] group_name = "node.k8s.io" ->
            <<Entry("runtimeclasses", FALSE, "RuntimeClass", {"get", "list"})>>
      [] OTHER -> <<>>

\* the discovery surface of a cluster with these groups, the groups of `down`
\* answering with an error
Surface(core_up, apis_up, groups, down, namespaces) ==
    [core |-> IF core_up THEN Some(CoreEntries) ELSE None,
     apis |-> IF apis_up THEN Some(groups) ELSE None,
     gv |-> [gv \in UNION {{<<groups[i].name, groups[i].versions[j]>> :
                               j \in 1..Len(groups[i].versions)} : i \in 1..Len(groups)} |->
                IF gv[1] \in down THEN None ELSE Some(GroupEntries(gv[1], gv[2]))],
     namespaces |-> namespaces]

Pairs(ks) == [i \in 1..Len(ks) |-> <<ks[i], IF ks[i] = "metadata" THEN MetaRef ELSE "orig">>]
Named(name, others) == <<<<"name", name>>>> \o [i \in 1..Len(others) |-> <<others[i], "orig">>]

\* the items the control plane holds, by resource name: an event is served under
\* its name by the core group and by events.k8s.io alike
ItemsOf(res_name) ==
    CASE res_name = "pods" ->
            <<[top |-> Pairs(<<"status", "spec", "metadata">>),
               meta |-> Named("foo", <<"uid", "labels">>)],
              [top |-> Pairs(<<"spec">>), meta |-> <<>>]>>
      [] res_name = "events" ->
            <<[top |-> Pairs(<<"metadata", "reason", "type">>),
               meta |-> Named("ev", <<"resourceVersion">>)]>>
      [] res_name = "nodes" ->
            <<[top |-> Pairs(<<"metadata", "status">>), meta |-> Named("n1", <<>>)]>>
      [] OTHER ->
            <<[top |-> Pairs(<<"metadata">>), meta |-> Named("x", <<>>)]>>

\* the dump units of a cluster: what discovery finds, in every namespace
UnitsOf(c) ==
    LET found == discover_resources(c)
    IN  {<<Some(c.namespaces[i]), found.ns_list[j]>> :
            i \in 1..Len(c.namespaces), j \in 1..Len(found.ns_list)}
        \cup {<<None, found.cluster_list[j]>> : j \in 1..Len(found.cluster_list)}

ErrorStatuses == {"403", "404", "500", "exc"}

\* the answers to the list calls in which the units of `failing` fail
Answers(units, failing) ==
    [p \in {ListPath(u[1], u[2]) : u \in units} |->
        LET u == CHOOSE u \in units : ListPath(u[1], u[2]) = p
        IN  IF u \in DOMAIN failing
            THEN [status |-> failing[u], items |-> <<>>]
            ELSE [status |-> "ok", items |-> ItemsOf(u[2][3])]]

\* every way in which at most n of the units fail
AnswerSets(units, n) ==
    UNION {{Answers(units, f) : f \in [F -> ErrorStatuses]} :
              F \in {F \in SUBSET units : Cardinality(F) <= n}}

DumpCluster ==
    Surface(TRUE, TRUE, <<Group("events.k8s.io", <<"v1">>, None)>>, {}, <<"ns1", "ns2">>)

RunCluster ==
    Surface(TRUE, TRUE, <<>>, {}, <<"ns1">>)

OldArchives == (<<0, "gz">> :> [mtime |-> 0, tree |-> <<>>])

ManifestIdle ==
    /\ m_stage = "idle"
    /\ m_raw = [top |-> <<>>, meta |-> <<>>]
    /\ m_inj = m_raw
    /\ m_obj = m_raw
    /\ m_desc = <<"", "v1", "pods", TRUE, "Pod">>
    /\ m_ns = None

\* the locals of a run that has not started
RunStart ==
    /\ run = 1
    /\ git_repo = None
    /\ ns_list = <<>> /\ ns_resources = <<>> /\ cls_resources = <<>>
    /\ idx = 1
    /\ listed = <<>> /\ wlog = <<>> /\ git_log = <<>> /\ notes = <<>>
    /\ new_archive = None /\ deleted = {}
    /\ raised = None /\ exit_code = None

NoOptions ==
    [mode |-> "all", force_remove |-> FALSE, git |-> FALSE, git_push |-> FALSE,
     archive |-> FALSE, archive_type |-> "gz", rotate_days |-> 7,
     namespaces |-> <<>>, slack |-> FALSE]

Modes == {"all", "ns", "cls"}

----------------------------------------------------------------------------
(* The dump, run twice: no archive, no git *)

InitDump ==
    /\ resp \in AnswerSets(UnitsOf(DumpCluster), MaxFailures)
    /\ cluster = DumpCluster
    /\ \E m \in Modes, f \in BOOLEAN :
          opts = [NoOptions EXCEPT !.mode = m, !.force_remove = f]
    /\ detailed \in BOOLEAN
    /\ fault \in {"none", "kubeconfig", "list_namespace_other"}
    /\ fs = StaleTree.fs /\ dirs = StaleTree.dirs /\ fs0 = fs /\ dirs0 = dirs
    /\ archives = <<>>
    /\ pc = "start"
    /\ now = Now0
    /\ RunStart
    /\ ManifestIdle

NextDump == NextRun \/ Rerun

SpecDump == InitDump /\ [][NextDump]_vars

----------------------------------------------------------------------------
(* One whole run of the command *)

Faults == {"none", "presync", "kubeconfig", "list_namespace_api", "list_namespace_other",
           "archive", "commit", "push"}

InitRun ==
    /\ resp \in AnswerSets(UnitsOf(RunCluster), 1)
    /\ cluster = RunCluster
    /\ detailed = FALSE
    /\ \E f \in BOOLEAN, g \in {<<FALSE, FALSE>>, <<TRUE, FALSE>>, <<TRUE, TRUE>>},
          a \in BOOLEAN, sl \in BOOLEAN, n \in {<<>>, <<"ns1">>} :
          opts = [NoOptions EXCEPT !.force_remove = f, !.git = g[1], !.git_push = g[2],
                                   !.archive = a, !.rotate_days = 1, !.namespaces = n,
                                   !.slack = sl]
    /\ fault \in Faults
    /\ fs = StaleTree.fs /\ dirs = StaleTree.dirs /\ fs0 = fs /\ dirs0 = dirs
    /\ archives = OldArchives
    /\ pc = "start"
    /\ now = Now0
    /\ RunStart
    /\ ManifestIdle

Spec == InitRun /\ [][NextRun]_vars

----------------------------------------------------------------------------
(* Discovery alone, against every cluster of the bounds *)

GroupNames == {"apps", "events.k8s.io", "metrics.k8s.io", "node.k8s.io"}
VersionLists == {<<<<>>, None>>, <<<<"v1">>, None>>, <<<<"v1beta1", "v1">>, None>>,
                 <<<<"v1beta1", "v1">>, Some("v1")>>}

\* the group lists of at most n groups with distinct names
GroupLists(n) ==
    UNION {{[i \in 1..Len(names) |-> Group(names[i], vl[i][1], vl[i][2])] :
               vl \in [1..Len(names) -> VersionLists]} :
              names \in DistinctSeqs(GroupNames, n)}

InitDiscover ==
    /\ \E core_up \in BOOLEAN, apis_up \in BOOLEAN, groups \in GroupLists(MaxGroups) :
          \E down \in SUBSET {groups[i].name : i \in 1..Len(groups)} :
             cluster = Surface(core_up, apis_up, groups, down, <<"ns1">>)
    /\ ManifestIdle
    /\ RunStart
    /\ pc = "discover"
    /\ now = Now0
    /\ detailed = FALSE
    /\ opts = NoOptions
    /\ resp = <<>>
    /\ fault = "none"
    /\ fs = <<>> /\ dirs = {} /\ fs0 = <<>> /\ dirs0 = {}
    /\ archives = <<>>

SpecDiscover == InitDiscover /\ [][Discover]_vars

----------------------------------------------------------------------------
(* The archive step alone, against every destination of the bounds *)

ArchiveTypes == {"gz", "bz2"}

\* the archives a destination may hold: at most n files, named after a tick of
\* the past or after the tick t of the run, last modified at any tick up to t
ArchiveSets(n, t) ==
    LET names == {0, t} \X ArchiveTypes
    IN  UNION {[S -> [mtime : 0..t, tree : {<<>>}]] :
                  S \in {S \in SUBSET names : Cardinality(S) <= n}}

InitArchive ==
    /\ archives \in ArchiveSets(MaxArchives, Now0)
    /\ ManifestIdle
    /\ RunStart
    /\ pc = "archive"
    /\ now = Now0
    /\ detailed = FALSE
    /\ \E t \in ArchiveTypes, d \in (0 - 1)..MaxRotateDays :
          opts = [NoOptions EXCEPT !.archive = TRUE, !.archive_type = t, !.rotate_days = d]
    /\ cluster = RunCluster
    /\ resp = <<>>
    /\ fault = "none"
    /\ fs = StaleTree.fs /\ dirs = StaleTree.dirs /\ fs0 = fs /\ dirs0 = dirs

SpecArchive == InitArchive /\ [][ArchiveStep]_vars

----------------------------------------------------------------------------
(* The per-item pipeline of a dump unit, one item at a time *)

InitManifest ==
    /\ m_stage = "raw"
    /\ m_raw \in RawItems(MaxTopKeys, MaxMetaKeys)
    /\ m_obj = m_raw
    /\ m_inj = m_raw
    /\ m_desc \in ManifestDescs
    /\ m_ns = IF m_desc[4] THEN Some("ns1") ELSE None
    /\ detailed \in BOOLEAN
    /\ \E t \in InitialTrees : fs = t.fs /\ dirs = t.dirs /\ fs0 = t.fs /\ dirs0 = t.dirs
    /\ archives = <<>>
    /\ RunStart
    /\ pc = "idle"
    /\ now = Now0
    /\ opts = NoOptions
    /\ cluster = RunCluster
    /\ resp = <<>>
    /\ fault = "none"

\* lines 485-486
MInject ==
    /\ m_stage = "raw"
    /\ m_obj' = InjectTypeMeta(m_obj, ApiVersionOf(m_desc[1], m_desc[2]), m_desc[5])
    /\ m_inj' = m_obj'
    /\ m_stage' = "injected"
    /\ UNCHANGED <<m_raw, m_desc, m_ns, diskvars, inputs, runvars>>

\* line 487
MClean ==
    /\ m_stage = "injected"
    /\ m_obj' = clean_resource(m_obj, detailed)
    /\ m_stage' = "cleaned"
    /\ UNCHANGED <<m_raw, m_inj, m_desc, m_ns, diskvars, inputs, runvars>>

\* line 488
MSave ==
    /\ m_stage = "cleaned"
    /\ LET r == save_object([fs |-> fs, dirs |-> dirs], m_obj, m_desc[3], m_ns)
       IN  /\ fs' = r.fs
           /\ dirs' = r.dirs
           /\ wlog' = wlog \o [i \in 1..Len(r.wrote) |->
                                 [unit |-> UnitId(m_ns, m_desc), path |-> r.wrote[i]]]
    /\ m_stage' = "saved"
    /\ UNCHANGED <<m_raw, m_inj, m_obj, m_desc, m_ns, archives, fs0, dirs0, inputs, now,
                   pc, run, git_repo, ns_list, ns_resources, cls_resources, idx, listed,
                   new_archive, deleted, git_log, raised, notes, exit_code>>

NextManifest == MInject \/ MClean \/ MSave

SpecManifest == InitManifest /\ [][NextManifest]_vars

----------------------------------------------------------------------------
(* Claims about the dump passes *)

\* the units in scope, in the order of the loops
RECURSIVE NamespacedScope(_, _)
NamespacedScope(nss, descs) ==
    IF nss = <<>> THEN <<>>
    ELSE [j \in 1..Len(descs) |-> <<Some(Head(nss)), descs[j]>>]
            \o NamespacedScope(Tail(nss), descs)

Scope ==
    (IF opts.mode \in {"all", "ns"} THEN NamespacedScope(ns_list, ns_resources) ELSE <<>>)
        \o (IF opts.mode \in {"all", "cls"}
            THEN [j \in 1..Len(cls_resources) |-> <<None, cls_resources[j]>>]
            ELSE <<>>)

\* the answers of the cluster, every failing list call answered with no items
AsIfEmpty(answers) ==
    [p \in DOMAIN answers |->
        IF answers[p].status = "ok" THEN answers[p] ELSE [status |-> "ok", items |-> <<>>]]

\* the tree and the writes of a dump of these units, up to the first that raises
RECURSIVE DumpAll(_, _, _, _)
DumpAll(disk, units, answers, det) ==
    IF units = <<>> THEN disk
    ELSE LET u == Head(units)
             r == DumpUnit([fs |-> disk.fs, dirs |-> disk.dirs], answers, u[1], u[2], det)
             after == [fs |-> r.fs, dirs |-> r.dirs,
                       wrote |-> disk.wrote \o [i \in 1..Len(r.wrote) |->
                                    [unit |-> UnitId(u[1], u[2]), path |-> r.wrote[i]]]]
         IN  IF r.effect = "raise" THEN after
             ELSE DumpAll(after, Tail(units), answers, det)

\* the tree the dump starts from: lines 429-442 came before
TreeBeforeDump ==
    IF opts.force_remove THEN [fs |-> <<>>, dirs |-> {}, wrote |-> <<>>]
    ELSE [fs |-> fs0, dirs |-> dirs0, wrote |-> <<>>]

StatusOf(unit_id) ==
    LET u == CHOOSE u \in Range(Scope) : UnitId(u[1], u[2]) = unit_id
    IN  ListCall(resp, ListPath(u[1], u[2])).status

AfterDump == pc \in {"archive", "commit", "return"}
InDump == pc \in {"dump_ns", "dump_cls"}

\* C1: a dump unit whose list call fails (403, 404, another ApiException, another
\* exception) does not abort the run: no failure leaves a dump pass, the passes
\* list the units in scope one after the other, each exactly once, and the tree and
\* the writes at the end of the dump are those of a dump in which every failing
\* unit had answered with zero items; a failing unit (a 404 among them) writes no
\* file.
C1_FaultIsolation ==
    /\ raised # None => raised[1].at \notin {"dump_ns", "dump_cls"}
    /\ InDump => /\ Len(listed) <= Len(Scope)
                 /\ \A i \in 1..Len(listed) : listed[i] = UnitId(Scope[i][1], Scope[i][2])
    /\ \A i \in 1..Len(wlog) : StatusOf(wlog[i].unit) = "ok"
    /\ AfterDump =>
          /\ listed = [i \in 1..Len(Scope) |-> UnitId(Scope[i][1], Scope[i][2])]
          /\ LET expected == DumpAll(TreeBeforeDump, Scope, AsIfEmpty(resp), detailed)
             IN  fs = expected.fs /\ dirs = expected.dirs /\ wlog = expected.wrote

\* a unit answers 404 and a unit after it has written its files
C1_Witness ==
    /\ AfterDump
    /\ \E i \in 1..Len(listed) :
          /\ StatusOf(listed[i]) = "404"
          /\ \E j \in 1..Len(wlog) : \E k \in (i + 1)..Len(listed) : wlog[j].unit = listed[k]
    /\ opts.mode = "all"

\* C2: no two distinct dump units of one run write the same destination path.
C2_NoCollision ==
    \A i, j \in 1..Len(wlog) :
        wlog[i].path = wlog[j].path => wlog[i].unit = wlog[j].unit

\* C3: the tree after the second of two runs against an unchanged cluster is the
\* tree after the first, file for file and content for content.
C3_Idempotent ==
    (run = 2 /\ pc = "exited") => (fs = fs0 /\ dirs = dirs0)

\* a second run that overwrote files, next to a file neither run wrote, with a
\* failing list call in both runs
C3_Witness ==
    /\ run = 2 /\ pc = "exited"
    /\ wlog # <<>>
    /\ <<"cluster", "nodes", "gone.yaml">> \in DOMAIN fs
    /\ \E i \in 1..Len(listed) : StatusOf(listed[i]) # "ok"
    /\ fs = fs0

----------------------------------------------------------------------------
(* Claims about discovery *)

Found == Range(ns_resources) \cup Range(cls_resources)

Listable(group_name, version, entries) ==
    {<<group_name, version, e.name, e.namespaced, e.kind>> :
        e \in {x \in Range(entries) : "list" \in x.verbs}}

\* the version discovery asks a group for: the preferred one, else the first listed
PreferredOrFirst(g) == IF g.preferred # None /\ g.preferred[1] # ""
                       THEN g.preferred[1] ELSE g.versions[1]

\* a group that discovery asks for its resources
Eligible(g) == g.versions # <<>> /\ g.name \notin {"metrics.k8s.io", "node.k8s.io"}

Advertised == IF cluster.apis = None THEN {} ELSE Range(cluster.apis[1])

\* what the groups whose own calls succeed have to offer
Introspected ==
    (IF cluster.core = None THEN {} ELSE Listable("", "v1", cluster.core[1]))
    \cup UNION {LET answer == cluster.gv[<<g.name, PreferredOrFirst(g)>>]
                IN  IF answer = None THEN {}
                    ELSE Listable(g.name, PreferredOrFirst(g), answer[1])
                : g \in {x \in Advertised : Eligible(x)}}

Discovered == pc = "dump_ns"

\* C7: whatever calls fail, discovery returns, and what it returns are the
\* listable resource types of the core group, if its call succeeded, and of every
\* API group whose own call succeeded: a failure skips only the group it concerns.
C7_BestEffort ==
    /\ pc = "discover" => ENABLED Discover
    /\ Discovered => (raised = None /\ Found = Introspected)

\* the first group advertised fails and a later one is found all the same
C7_Witness ==
    /\ Discovered
    /\ cluster.core = None
    /\ cluster.apis # None
    /\ Len(cluster.apis[1]) = 2
    /\ Eligible(cluster.apis[1][1])
    /\ cluster.gv[<<cluster.apis[1][1].name, PreferredOrFirst(cluster.apis[1][1])>>] = None
    /\ Found # {}

AllCallsSucceed ==
    /\ cluster.core # None
    /\ cluster.apis # None
    /\ \A gv \in DOMAIN cluster.gv : cluster.gv[gv] # None

\* C8: when every call succeeds, the descriptors are exactly the entries with the
\* verb list of core v1 and, for every group with a version that is neither
\* metrics.k8s.io nor node.k8s.io, of its preferred version (its first version
\* when none is preferred); none is of metrics.k8s.io or node.k8s.io; a
\* descriptor is in the namespaced list iff its namespaced flag is set, in the
\* cluster list otherwise, and in no list twice.
C8_DiscoveryResult ==
    (Discovered /\ AllCallsSucceed) =>
        /\ Range(ns_resources) = {d \in Introspected : d[4]}
        /\ Range(cls_resources) = {d \in Introspected : ~d[4]}
        /\ \A d \in Found : d[1] \notin {"metrics.k8s.io", "node.k8s.io"}
        /\ Len(ns_resources) = Cardinality(Range(ns_resources))
        /\ Len(cls_resources) = Cardinality(Range(cls_resources))

\* a group with a preferred version that is not its first, next to metrics.k8s.io
C8_Witness ==
    /\ Discovered /\ AllCallsSucceed
    /\ \E g \in Advertised : g.name = "metrics.k8s.io" /\ g.versions # <<>>
    /\ \E g \in Advertised : g.name = "apps" /\ g.preferred = Some("v1")
    /\ <<"apps", "v1", "deployments", TRUE, "Deployment">> \in Range(ns_resources)
    /\ <<"", "v1", "nodes", FALSE, "Node">> \in Range(cls_resources)

----------------------------------------------------------------------------
(* Claims about the end of a run *)

\* C9: a run in which no step of _run_backup fails ends with exit status 0 after
\* the success notification; a run in which a step fails (the credentials, the
\* namespace listing, a GitError of the push, any other exception) ends with exit
\* status 1 after one failure notification, which is POSTed when a webhook URL is
\* set; whatever becomes of the notification, the exit status is the same.
C9_ExitStatus ==
    /\ pc = "exited" =>
          IF raised = None
          THEN /\ exit_code = Some(0)
               /\ Len(notes) = 1 /\ notes[1].success
          ELSE /\ exit_code = Some(1)
               /\ Len(notes) = 1 /\ ~notes[1].success
               /\ opts.slack => notes[1].delivery # "no_url"
    /\ (pc = "exited" /\ fault = "kubeconfig") => exit_code = Some(1)
    /\ (pc = "exited" /\ fault \in {"list_namespace_api", "list_namespace_other"}
          /\ opts.namespaces = <<>>) => exit_code = Some(1)
    /\ (pc = "exited" /\ fault = "none") => exit_code = Some(0)
    /\ pc # "exited" => exit_code = None

\* a push that fails, and a failure notification that fails too
C9_Witness ==
    /\ pc = "exited"
    /\ raised = Failure("GitError", "push")
    /\ exit_code = Some(1)
    /\ notes = <<[success |-> FALSE, delivery |-> "exception"]>>

----------------------------------------------------------------------------
(* Claims about the archive step *)

Archived == pc = "commit" /\ new_archive # None

\* C10: the rotation deletes only archives that are older than the retention
\* window when the cutoff is taken, never the archive of this run, whatever its
\* time and the window, and no manifest.
C10_RotationSafety ==
    Archived =>
        /\ \A d \in deleted : now - d.mtime > opts.rotate_days
        /\ \A d \in deleted : d.name # new_archive[1] /\ d.name \notin DOMAIN archives
        /\ new_archive[1] \in DOMAIN archives
        /\ archives[new_archive[1]].tree = fs
        /\ fs = fs0

\* a window so short that the archive of this run is itself older than the cutoff
C10_Witness ==
    /\ Archived
    /\ deleted # {}
    /\ now - archives[new_archive[1]].mtime > opts.rotate_days
    /\ \E a \in DOMAIN archives : a[2] # opts.archive_type

----------------------------------------------------------------------------
(* Claims about the order of the phases of a run *)

AllUnits == [i \in 1..Len(Scope) |-> UnitId(Scope[i][1], Scope[i][2])]
WrittenPaths == {wlog[i].path : i \in 1..Len(wlog)}

\* the destination is cleaned before the dump: by the pre-dump sync, else by
\* --force-remove
CleansFirst == opts.git \/ opts.force_remove

RaisedAt(steps) == raised # None /\ raised[1].at \in steps

\* the archive step has begun: it has written its archive or it has failed
ArchiveStarted == new_archive # None \/ RaisedAt({"archive"})
\* git_commit_and_push has begun: it has committed or it has failed
CommitStarted == git_log # <<>> \/ RaisedAt({"commit", "push"})
SuccessNoted == \E i \in 1..Len(notes) : notes[i].success

\* what the phases leave behind, in every state of a run
PhaseOrderState ==
    \* the clean is over when the first unit is listed, and it is never done again:
    \* from then on the tree holds the files this run wrote and no other
    /\ (CleansFirst /\ listed # <<>>) => DOMAIN fs = WrittenPaths
    /\ (opts.git /\ listed # <<>>) => git_repo # None
    /\ WrittenPaths \subseteq DOMAIN fs
    \* the archive step begins after the last unit, and holds every manifest
    /\ ArchiveStarted => listed = AllUnits
    /\ new_archive # None =>
          /\ new_archive[1] \in DOMAIN archives
          /\ archives[new_archive[1]].tree = fs
    \* the commit begins after the dump and after the archive step has finished
    /\ CommitStarted =>
          /\ listed = AllUnits
          /\ ~RaisedAt({"archive"})
          /\ opts.archive => new_archive # None
    \* the success notification comes after the three of them, none having failed
    /\ SuccessNoted =>
          /\ raised = None
          /\ listed = AllUnits
          /\ opts.archive => new_archive # None
          /\ pc = "exited"

\* what a step may do, given what has begun
PhaseOrderStep ==
    \* no unit is listed and no manifest is written once the dump passes are left
    /\ (pc \notin {"dump_ns", "dump_cls"} \/ ArchiveStarted \/ CommitStarted)
          => UNCHANGED <<wlog, listed>>
    \* the tree changes in the dump passes, and before them in the clean
    /\ (pc \notin {"start", "dump_ns", "dump_cls"} \/ ArchiveStarted \/ CommitStarted)
          => UNCHANGED <<fs, dirs>>
    \* the step that cleans the tree comes before the first list call
    /\ (DOMAIN fs \ DOMAIN fs') # {} => (listed = <<>> /\ wlog = <<>>)
    \* no archive is written or rotated once the commit has begun
    /\ (CommitStarted \/ pc \in {"return", "exited"})
          => UNCHANGED <<archives, new_archive, deleted>>
    \* the success notification is the last thing a run does
    /\ SuccessNoted => UNCHANGED <<fs, dirs, wlog, listed, archives, new_archive, git_log>>
    /\ (SuccessNoted' /\ ~SuccessNoted) => pc = "return"

\* C11: in every run the clean of the destination (pre-dump sync, force-remove)
\* comes before the first list call and the first manifest write; the archive
\* step begins after the last dump unit and archives every manifest written; the
\* commit begins after the archive step has finished; the success notification
\* comes after the dump, the archive and the commit, none of which acts after
\* it; no manifest is written once the archive or the commit has begun.
C11_PhaseOrder == []PhaseOrderState /\ [][PhaseOrderStep]_vars

\* a run that cleaned, wrote, archived, committed, pushed and notified
C11_Witness ==
    /\ pc = "exited"
    /\ SuccessNoted
    /\ opts.git /\ git_log = <<"commit", "push">>
    /\ new_archive # None
    /\ wlog # <<>>
    /\ <<"cluster", "nodes", "gone.yaml">> \notin DOMAIN fs
    /\ \E i \in 1..Len(listed) : StatusOf(listed[i]) # "ok"

----------------------------------------------------------------------------
(* Claims about the per-item pipeline (clean_resource, save_object) *)

StripSet == {"uid", "resourceVersion", "generation", "managedFields", "creationTimestamp"}
Without(d, ks) == SelectSeq(d, LAMBDA e : e[1] \notin ks)
Normalized == m_stage \in {"cleaned", "saved"}

\* C4 as stated: when detailed is false the normalized manifest is the injected
\* item minus the top-level key status and minus the metadata keys uid,
\* resourceVersion, generation, managedFields, creationTimestamp, and nothing else
\* differs; when detailed is true the normalized manifest is the injected item.
C4_RemovesExactlyAsStated ==
    Normalized =>
        IF detailed THEN m_obj = m_inj
        ELSE /\ m_obj.top = Without(m_inj.top, {"status"})
             /\ m_obj.meta = Without(m_inj.meta, StripSet)

\* C4 amended: as stated, except that an item with no metadata key gains a
\* metadata key holding an empty mapping, placed after its other keys.
C4_RemovesExactly ==
    Normalized =>
        IF detailed THEN m_obj = m_inj
        ELSE /\ m_obj.top = IF Has(m_inj.top, "metadata")
                            THEN Without(m_inj.top, {"status"})
                            ELSE Append(Without(m_inj.top, {"status"}), <<"metadata", MetaRef>>)
             /\ m_obj.meta = Without(m_inj.meta, StripSet)

C4_Witness ==
    /\ m_stage = "cleaned"
    /\ ~detailed
    /\ Has(m_inj.top, "status") /\ ~Has(m_obj.top, "status")
    /\ Has(m_inj.meta, "generation") /\ Has(m_inj.meta, "labels")
    /\ KeySet(m_obj.meta) = {"labels"}

\* the keys of PriorityKeys that the manifest has, in that order, then the
\* manifest's other keys in the manifest's own order
ExpectedKeyOrder(top) ==
    SelectSeq(PriorityKeys, LAMBDA k : k \in KeySet(top))
        \o SelectSeq(Keys(top), LAMBDA k : k \notin Range(PriorityKeys))

\* C5: for every manifest with a name, the document written has its top-level keys
\* in the order apiVersion, kind, metadata, spec, data, stringData, type (those
\* present), then the remaining keys in the manifest's own order; every key of the
\* manifest appears exactly once, with its value, and no key is added.
C5_KeyOrder ==
    (m_stage = "saved" /\ Truthy(ObjName(m_obj))) =>
        /\ Len(wlog) = 1
        /\ LET doc == fs[wlog[1].path][1]
           IN  /\ Keys(doc.top) = ExpectedKeyOrder(m_obj.top)
               /\ \A k \in KeySet(m_obj.top) : Get(doc.top, k) = Get(m_obj.top, k)
               /\ doc.meta = m_obj.meta

C5_Witness ==
    /\ m_stage = "saved"
    /\ detailed
    /\ Keys(m_raw.top) = <<"status", "spec", "metadata">>
    /\ Truthy(ObjName(m_obj))
    /\ Keys(fs[wlog[1].path][1].top) = <<"apiVersion", "kind", "metadata", "spec", "status">>

HasNameKey(obj) == Has(obj.top, "metadata") /\ Has(obj.meta, "name")
Touched == wlog # <<>> \/ fs # fs0 \/ dirs # dirs0
ExpectedPath(name) ==
    IF m_desc[4]
    THEN <<"namespaces", "ns1", m_desc[3], name \o ".yaml">>
    ELSE <<"cluster", m_desc[3], name \o ".yaml">>

\* C6 as stated: the writer touches the filesystem iff metadata.name is present.
C6_WritesIffNamePresent ==
    m_stage = "saved" => (Touched <=> HasNameKey(m_obj))

\* C6 amended: the writer touches the filesystem iff metadata.name is present and
\* not empty; then exactly one file is written, at
\* namespaces/<namespace>/<pluralName>/<name>.yaml for a namespaced item and at
\* cluster/<pluralName>/<name>.yaml for a cluster-scoped one, and every other file
\* is left as it was; otherwise no file and no directory is created or changed.
C6_Destination ==
    m_stage = "saved" =>
        IF HasNameKey(m_obj) /\ Get(m_obj.meta, "name") # ""
        THEN LET path == ExpectedPath(Get(m_obj.meta, "name"))
             IN  /\ Len(wlog) = 1 /\ wlog[1].path = path
                 /\ DOMAIN fs = DOMAIN fs0 \cup {path}
                 /\ \A p \in DOMAIN fs0 \ {path} : fs[p] = fs0[p]
                 /\ dirs = dirs0 \cup ParentDirs(path)
        ELSE ~Touched

C6_Witness ==
    /\ m_stage = "saved"
    /\ m_desc[3] = "pods"
    /\ wlog # <<>>
    /\ wlog[1].path = <<"namespaces", "ns1", "pods", "foo.yaml">>
    /\ fs0 # <<>>
    /\ fs[wlog[1].path] # fs0[wlog[1].path]

====
